---- MODULE Spec2Model ----
(***************************************************************************)
(* Dungeon GPT Lite (src/streamlit_app.py): the browser session whose     *)
(* script runs, its st.session_state, a second session between its runs,  *)
(* the Firestore document store and the Gemini provider.                  *)
(*                                                                         *)
(* A step of the model is one script run: the user interaction that       *)
(* starts it and the script executed top to bottom until it ends, raises, *)
(* or calls st.rerun().  Temperatures are written in hundredths           *)
(* (0.7 is 70).  A text is the sequence of the fragments an f-string      *)
(* joins, so a formatted message keeps the values formatted into it.      *)
(***************************************************************************)
EXTENDS Integers, Sequences, FiniteSets, TLC

VARIABLES
    story_history,            \* st.session_state.story_history
    current_mode,             \* st.session_state.current_mode
    temperature,              \* st.session_state.temperature, in hundredths
    tone,                     \* st.session_state.tone
    user_id,                  \* st.session_state.user_id
    db,                       \* the Firestore client, or None
    gemini_model_censored,    \* safety threshold of the censored model, or None
    gemini_model_uncensored,  \* safety threshold of the uncensored model, or None
    store,                    \* Firestore: user id -> current_session_data document
    export_data,              \* data of the download button the user can click:
                              \* <<>> when it is disabled or a rerun replaces it
    phase,                    \* how the last script run ended: "rest" (it ran
                              \* to its end), "rerun" (st.rerun(), or the first
                              \* run is due), "slider" / "tone" (that widget
                              \* raised), "exception" (the generation raised)
    ui,                       \* st.success/info/warning/error/toast of the last run
    calls,                    \* store and provider calls issued by the last run
    welcome_due,              \* history: a run left the log empty and no run has
                              \* completed since
    saved,                    \* history: <<the session at the last successful
                              \* Save>>, <<>> before it
    parked                    \* st.session_state (and the page) of the other
                              \* browser session, which is between two runs

vars == <<story_history, current_mode, temperature, tone, user_id, db,
          gemini_model_censored, gemini_model_uncensored, store,
          export_data, phase, ui, calls, welcome_due, saved, parked>>

session == <<story_history, current_mode, temperature, tone>>

settings == <<current_mode, temperature, tone>>

None == "None"

(* ---------------------------- bounds ---------------------------------- *)

\* The chat input is offered while the exchange still fits in MaxTurns turns.
MaxTurns == 3

\* The same, where the prompt is built from logs longer than its window.
MaxPromptTurns == 13

\* The same, for stories that are saved and loaded between their turns.
MaxStoryTurns == 5

(* ------------------------- program constants -------------------------- *)

DefaultMode == "censored"

DefaultTemperature == 70

DefaultTone == "Fantasy"

ModeOptions == <<"censored", "uncensored">>

ToneOptions == <<"Fantasy", "Sci-Fi", "Horror", "Mystery", "Comedy", "Historical">>

SliderMin == 0

SliderMax == 100

WelcomeText == <<"Welcome, adventurer! What quest shall we embark on today?">>

WelcomeTurn == [sender |-> "ai", text |-> WelcomeText]

DEFAULT_SAFETY_SETTINGS == "BLOCK_MEDIUM_AND_ABOVE"

UNCENSORED_SAFETY_SETTINGS == "BLOCK_NONE"

Range(s) == {s[i] : i \in DOMAIN s}

(* dict.get(key, default) *)
Get(d, k, default) == IF k \in DOMAIN d THEN d[k] ELSE default

(* ------------------------------ inputs -------------------------------- *)

UserIds == {"uuid-a", "uuid-b"}

UserPrompts == {<<"I open the door">>, <<"I draw my sword">>}

\* What the user picks in the widgets.
ModeChoices == Range(ModeOptions)

TemperatureChoices == {70, 90}

ToneChoices == {"Fantasy", "Horror"}

(* --------------------------- the provider ----------------------------- *)

\* str(e) of the failures the provider raises; the models are created as
\* gemini-1.5-flash-latest (lines 96-97), the name a 404 carries.
ErrorMessages ==
    { "401 API key not valid",
      "403 Permission denied",
      "500 Internal error",
      "404 models/gemini-1.5-flash-latest is not found" }

(* `sub in error_message`, for the substrings the code looks for. *)
Contains(error_message, sub) ==
    CASE error_message = "401 API key not valid" -> FALSE
      [] error_message = "403 Permission denied" -> sub = "403"
      [] error_message = "500 Internal error" -> sub = "500"
      [] error_message = "404 models/gemini-1.5-flash-latest is not found" ->
            sub = "404"
      [] OTHER -> FALSE

\* What selected_model.generate_content does: it raises e, or returns a
\* response whose text and prompt_feedback may each be empty ("").
ProviderOutcomes ==
    [raised : {FALSE}, text : {"", "The door creaks open."},
     block_reason : {"", "SAFETY"}, message : {""}]
    \cup
    [raised : {TRUE}, text : {""}, block_reason : {""}, message : ErrorMessages]

NotConfiguredText(mode) ==
    <<"Error: Gemini API for '", mode,
      "' mode is not configured. Check your GOOGLE_API_KEY.">>

BlockedText(reason) ==
    <<"AI response was blocked by safety settings. Reason: ", reason>>

EmptyText == <<"AI returned an empty or unreadable response.">>

ModelNotFoundText(mode) ==
    <<"AI (Gemini ", mode, ") API Error: Model 'gemini-pro' not found or accessible.">>

PermissionDeniedText(mode) ==
    <<"AI (Gemini ", mode, ") API Error: Permission denied. Check your GOOGLE_API_KEY and its permissions.">>

ServerErrorText(mode) ==
    <<"AI (Gemini ", mode, ") API Error: Internal server error. Please try again later.">>

UnknownErrorText(mode, e) ==
    <<"AI (Gemini ", mode, ") encountered an error: ", e>>

\* Variant: the 403 branch returns the text of the 500 branch.
classify_exception_swapped(mode, error_message) ==
    IF Contains(error_message, "404") /\ Contains(error_message, "models/gemini-pro")
    THEN [returned |-> TRUE, text |-> ModelNotFoundText(mode), shown |-> {}]
    ELSE IF Contains(error_message, "403")
    THEN [returned |-> TRUE, text |-> ServerErrorText(mode), shown |-> {}]
    ELSE IF Contains(error_message, "500")
    THEN [returned |-> TRUE, text |-> PermissionDeniedText(mode), shown |-> {}]
    ELSE [returned |-> TRUE, text |-> UnknownErrorText(mode, error_message),
          shown |-> {"gemini_error"}]

\* Variant: the last branch shows the error and raises it again.
classify_exception_reraise(mode, error_message) ==
    IF Contains(error_message, "404") /\ Contains(error_message, "models/gemini-pro")
    THEN [returned |-> TRUE, text |-> ModelNotFoundText(mode), shown |-> {}]
    ELSE IF Contains(error_message, "403")
    THEN [returned |-> TRUE, text |-> PermissionDeniedText(mode), shown |-> {}]
    ELSE IF Contains(error_message, "500")
    THEN [returned |-> TRUE, text |-> ServerErrorText(mode), shown |-> {}]
    ELSE [returned |-> FALSE, text |-> UnknownErrorText(mode, error_message),
          shown |-> {"gemini_error"}]

(* The except branch of generate_gemini_response (lines 173-187): every   *)
(* branch returns a text; the last one also calls st.error.               *)
classify_exception(mode, error_message) ==
    IF Contains(error_message, "404") /\ Contains(error_message, "models/gemini-pro")
    THEN [returned |-> TRUE, text |-> ModelNotFoundText(mode), shown |-> {}]
    ELSE IF Contains(error_message, "403")
    THEN [returned |-> TRUE, text |-> PermissionDeniedText(mode), shown |-> {}]
    ELSE IF Contains(error_message, "500")
    THEN [returned |-> TRUE, text |-> ServerErrorText(mode), shown |-> {}]
    ELSE [returned |-> TRUE, text |-> UnknownErrorText(mode, error_message),
          shown |-> {"gemini_error"}]

(* The try block of generate_gemini_response (lines 155-171) for a        *)
(* response that generate_content returned.                               *)
read_response(outcome) ==
    IF outcome.text # "" THEN <<outcome.text>>
    ELSE IF outcome.block_reason # "" THEN BlockedText(outcome.block_reason)
    ELSE EmptyText

\* Variant: the two models change places.
select_model_swapped(mode) ==
    IF mode = "censored" THEN gemini_model_uncensored
    ELSE IF mode = "uncensored" THEN gemini_model_censored
    ELSE None

(* selected_model of generate_gemini_response (lines 145-149): the model  *)
(* instance of the mode, None for any other mode.                         *)
select_model(mode) ==
    IF mode = "censored" THEN gemini_model_censored
    ELSE IF mode = "uncensored" THEN gemini_model_uncensored
    ELSE None

\* Variant: the missing model is found only when generate_content is called
\* on it, and the failure is handled as any other one.
generate_gemini_response_attempting(prompt, t, mode, outcome) ==
    LET selected_model == select_model(mode)
        request == [safety_settings |-> selected_model, contents |-> prompt,
                    temperature |-> t]
    IN  IF selected_model # None /\ ~outcome.raised
        THEN [returned |-> TRUE, text |-> read_response(outcome),
              invoked |-> {request}, shown |-> {}]
        ELSE [returned |-> TRUE, text |-> UnknownErrorText(mode, outcome.message),
              invoked |-> {request}, shown |-> {"gemini_error"}]

(* generate_gemini_response(prompt, temperature, mode), the provider      *)
(* answering with `outcome`.  returned: TRUE when the function returns a  *)
(* value, FALSE when an exception leaves it; invoked: the requests made   *)
(* with generate_content, each with the safety settings of the model it   *)
(* was called on, the prompt and the generation_config temperature;       *)
(* shown: st.error calls.                                                 *)
generate_gemini_response(prompt, t, mode, outcome) ==
    LET selected_model == select_model(mode)
        request == [safety_settings |-> selected_model, contents |-> prompt,
                    temperature |-> t]
    IN  IF selected_model = None
        THEN [returned |-> TRUE, text |-> NotConfiguredText(mode),
              invoked |-> {}, shown |-> {}]
        ELSE IF ~outcome.raised
        THEN [returned |-> TRUE, text |-> read_response(outcome),
              invoked |-> {request}, shown |-> {}]
        ELSE LET r == classify_exception(mode, outcome.message)
             IN  [returned |-> r.returned, text |-> r.text,
                  invoked |-> {request}, shown |-> r.shown]

(* ---------------------------- the store ------------------------------- *)

\* A store call reaches the backend or raises; a call that raises has
\* written nothing.
Networks == {"ok", "unavailable"}

Call(op, arg) == [op |-> op, arg |-> arg]

\* Variant: set without merge, the document is the data.
MergeSet_replacing(stored, data) == data

\* Variant: a merge that keeps the fields already stored.
MergeSet_keeping(stored, data) ==
    [k \in DOMAIN stored \cup DOMAIN data |->
        IF k \in DOMAIN stored THEN stored[k] ELSE data[k]]

(* doc_ref.set(data, merge=True): fields of data replace same-named       *)
(* fields, the other stored fields stay.                                  *)
MergeSet(stored, data) ==
    [k \in DOMAIN stored \cup DOMAIN data |->
        IF k \in DOMAIN data THEN data[k] ELSE stored[k]]

EmptyDocument == [k \in {} |-> None]

(* session_data of save_story_to_firestore (lines 207-213); the server    *)
(* puts its own time where the client wrote SERVER_TIMESTAMP.             *)
session_data ==
    [history |-> story_history, current_mode |-> current_mode,
     temperature |-> temperature, tone |-> tone,
     timestamp |-> "SERVER_TIMESTAMP"]

\* Variant: the path is the name of the last document alone.
doc_ref_document_only == "current_session_data"

(* doc_ref (lines 204 and 235): artifacts/APP_ID/users/<user_id>/stories/ *)
(* current_session_data, which the user id alone tells from the others.   *)
doc_ref == user_id

\* Variant: only the user id is checked.
not_initialized_user_only == user_id = ""

(* `not db or not st.session_state.user_id` (lines 198 and 230). *)
not_initialized == db = None \/ user_id = ""

(* save_story_to_firestore(), the backend answering with net. *)
save_story_to_firestore(net) ==
    IF not_initialized
    THEN [result |-> FALSE, store |-> store,
          ui |-> {"save_not_initialized"}, calls |-> {}]
    ELSE IF net # "ok"
    THEN [result |-> FALSE, store |-> store,
          ui |-> {"save_error"}, calls |-> {Call("set", doc_ref)}]
    ELSE LET stored == IF doc_ref \in DOMAIN store THEN store[doc_ref]
                       ELSE EmptyDocument
             written == MergeSet(stored, session_data)
         IN  [result |-> TRUE,
              store |-> [k \in DOMAIN store \cup {doc_ref} |->
                            IF k = doc_ref THEN written ELSE store[k]],
              ui |-> {"save_ok"}, calls |-> {Call("set", doc_ref)}]

\* Variant: a missing document is handled as a failed read.
load_missing_as_error(same) ==
    [same EXCEPT !.ui = {"load_error"}, !.calls = {Call("get", doc_ref)}]

\* Variant: a missing document is read as an empty one, with the defaults
\* of data.get.
load_missing_resetting(same) ==
    [same EXCEPT !.history = <<>>, !.mode = "censored", !.temperature = 70,
                 !.tone = "Fantasy", !.ui = {"load_none"},
                 !.calls = {Call("get", doc_ref)}]

(* The branch of load_story_from_firestore for a document that does not   *)
(* exist (lines 248-251).                                                 *)
load_missing(same) ==
    [same EXCEPT !.ui = {"load_none"}, !.calls = {Call("get", doc_ref)}]

(* load_story_from_firestore(), the backend answering with net. *)
load_story_from_firestore(net) ==
    LET same == [result |-> FALSE, history |-> story_history,
                 mode |-> current_mode, temperature |-> temperature,
                 tone |-> tone, ui |-> {}, calls |-> {}]
    IN  IF not_initialized
        THEN [same EXCEPT !.ui = {"load_not_initialized"}]
        ELSE IF net # "ok"
        THEN [same EXCEPT !.ui = {"load_error"},
                          !.calls = {Call("get", doc_ref)}]
        ELSE IF doc_ref \in DOMAIN store
        THEN LET data == store[doc_ref]
             IN  [result |-> TRUE,
                  history |-> Get(data, "history", <<>>),
                  mode |-> Get(data, "current_mode", "censored"),
                  temperature |-> Get(data, "temperature", 70),
                  tone |-> Get(data, "tone", "Fantasy"),
                  ui |-> {"load_ok"}, calls |-> {Call("get", doc_ref)}]
        ELSE load_missing(same)

(* -------------------------- the transcript ---------------------------- *)

\* A JSON value used as "settings": an object with its members, or not one.
JsonObject(members) == [is_object |-> TRUE, members |-> members]

JsonNumber == [is_object |-> FALSE, members |-> EmptyDocument]

(* json.dumps(value) and the upload of a file that is no JSON text. *)
json_dumps(value) == [is_json |-> TRUE, value |-> value]

NotJsonFile == [is_json |-> FALSE, value |-> EmptyDocument]

\* Variant: the mode is exported under the key "mode".
export_document_renamed(h, m, t, tn, id) ==
    [history |-> h,
     settings |-> JsonObject([mode |-> m, temperature |-> t, tone |-> tn]),
     exported_from_user_id |-> id]

(* export_data of the export handler (lines 308-316). *)
export_document(h, m, t, tn, id) ==
    [history |-> h,
     settings |-> JsonObject([current_mode |-> m, temperature |-> t, tone |-> tn]),
     exported_from_user_id |-> id]

(* The export handler (lines 304-326): the data of the download button,   *)
(* <<>> when the button is disabled.                                      *)
export_handler(h, m, t, tn) ==
    IF h # <<>>
    THEN <<json_dumps(export_document(h, m, t, tn, user_id))>>
    ELSE <<>>

\* Variant: one of the two keys is enough.
has_expected_keys_either(imported_data) ==
    "history" \in DOMAIN imported_data \/ "settings" \in DOMAIN imported_data

(* `"history" in imported_data and "settings" in imported_data` (line 350). *)
has_expected_keys(imported_data) ==
    "history" \in DOMAIN imported_data /\ "settings" \in DOMAIN imported_data

\* Variant: an absent field falls back to the hardcoded default.
imported_setting_or_default(given, key, current) ==
    Get(given, key, CASE key = "current_mode" -> DefaultMode
                      [] key = "temperature" -> DefaultTemperature
                      [] OTHER -> DefaultTone)

(* imported_data["settings"].get(key, st.session_state.<key>), lines 353-355. *)
imported_setting(given, key, current) == Get(given, key, current)

(* The import handler (lines 343-371) on an uploaded file.  rerun: the    *)
(* handler reached st.rerun(); otherwise an except branch ended it: for a *)
(* file that is no JSON, for a subscript on a missing key (KeyError) and  *)
(* for .get on a "settings" that is no object (AttributeError), each with *)
(* the assignments made before it kept.                                   *)
import_handler(file) ==
    LET same == [history |-> story_history, mode |-> current_mode,
                 temperature |-> temperature, tone |-> tone,
                 rerun |-> FALSE, ui |-> {}]
    IN  IF ~file.is_json
        THEN [same EXCEPT !.ui = {"import_invalid_json"}]
        ELSE LET imported_data == file.value
             IN  IF ~has_expected_keys(imported_data)
                 THEN [same EXCEPT !.rerun = TRUE,
                                   !.ui = {"import_invalid_format"}]
                 ELSE IF "history" \notin DOMAIN imported_data
                 THEN [same EXCEPT !.ui = {"import_error"}]
                 ELSE IF \/ "settings" \notin DOMAIN imported_data
                         \/ ~imported_data["settings"].is_object
                 THEN [same EXCEPT !.history = imported_data["history"],
                                   !.ui = {"import_error"}]
                 ELSE LET given == imported_data["settings"].members
                      IN  [history |-> imported_data["history"],
                           mode |-> imported_setting(given, "current_mode", current_mode),
                           temperature |-> imported_setting(given, "temperature", temperature),
                           tone |-> imported_setting(given, "tone", tone),
                           rerun |-> TRUE, ui |-> {"import_ok"}]

(* ------------------------ the settings widgets ------------------------ *)

\* A widget returns what the user picked in this run (pick = {v}), or,
\* untouched (pick = {}), the option its index/value argument names: the
\* script passes the session's value as index/value on every run.
Picked(pick, shown) == IF pick = {} THEN shown ELSE CHOOSE v \in pick : TRUE

IndexOf(options, v) == CHOOSE i \in DOMAIN options : options[i] = v

(* Lines 381-408.  raised names the widget whose call raised: the slider  *)
(* for a value outside [min_value, max_value], list.index for a tone that *)
(* is no option.  Assignments made before the raise stay.                 *)
settings_widgets(m, t, tn, pick_mode, pick_temperature, pick_tone) ==
    LET mode == Picked(pick_mode, ModeOptions[IF m = "censored" THEN 1 ELSE 2])
    IN  IF t < SliderMin \/ t > SliderMax
        THEN [mode |-> mode, temperature |-> t, tone |-> tn, raised |-> "slider"]
        ELSE IF tn \notin Range(ToneOptions)
        THEN [mode |-> mode, temperature |-> Picked(pick_temperature, t),
              tone |-> tn, raised |-> "tone"]
        ELSE [mode |-> mode, temperature |-> Picked(pick_temperature, t),
              tone |-> Picked(pick_tone, ToneOptions[IndexOf(ToneOptions, tn)]),
              raised |-> ""]

\* Variant: the welcome turn is appended without looking at the log.
seed_welcome_always(h) == Append(h, WelcomeTurn)

(* The initial welcome message (lines 462-464). *)
seed_welcome(h) == IF h = <<>> THEN <<WelcomeTurn>> ELSE h

(* The script from the settings widgets to its end (lines 377-464) when   *)
(* the chat input holds no prompt.                                        *)
script_end(h, m, t, tn, pick_mode, pick_temperature, pick_tone) ==
    LET w == settings_widgets(m, t, tn, pick_mode, pick_temperature, pick_tone)
    IN  [history |-> IF w.raised = "" THEN seed_welcome(h) ELSE h,
         mode |-> w.mode, temperature |-> w.temperature, tone |-> w.tone,
         phase |-> IF w.raised = "" THEN "rest" ELSE w.raised]

(* ----------------------------- the prompt ----------------------------- *)

\* The slice [-10:] of line 443.
ContextWindow == 10

\* Variant: the slice [:10], the oldest turns.
recent_messages_oldest(h) ==
    SubSeq(h, 1, IF Len(h) > ContextWindow THEN ContextWindow ELSE Len(h))

(* st.session_state.story_history[-10:] (line 443). *)
recent_messages(h) ==
    SubSeq(h, IF Len(h) > ContextWindow THEN Len(h) - ContextWindow + 1 ELSE 1,
           Len(h))

(* msg['sender'].upper(), for the senders the program writes. *)
upper(sender) ==
    CASE sender = "user" -> "USER"
      [] sender = "ai" -> "AI"
      [] OTHER -> sender

(* f"{msg['sender'].upper()}: {msg['text']}\n" (line 444). *)
message_line(msg) == <<upper(msg.sender), ": ">> \o msg.text \o <<"\n">>

RECURSIVE context_lines(_)
context_lines(msgs) ==
    IF msgs = <<>> THEN <<>>
    ELSE message_line(Head(msgs)) \o context_lines(Tail(msgs))

(* The system prompt of lines 433-437. *)
preamble(tn) ==
    <<"You are an AI Dungeon Master. ", "The story's tone is: ", tn, ". ",
      "Generate the next part of the fantasy story based on the following conversation:\n\n">>

(* full_context of the submit-turn handler (lines 433-445), built from    *)
(* the log that already holds the user's turn.                            *)
full_context(h, tn) ==
    preamble(tn) \o context_lines(recent_messages(h)) \o <<"AI:">>

\* Variant: the turn takes the place of the last one.
append_replacing(h, sender, text) ==
    IF h = <<>> THEN <<[sender |-> sender, text |-> text]>>
    ELSE [h EXCEPT ![Len(h)] = [sender |-> sender, text |-> text]]

(* st.session_state.story_history.append({"sender": ..., "text": ...})    *)
(* (lines 429 and 455).                                                   *)
append(h, sender, text) == Append(h, [sender |-> sender, text |-> text])

(* ------------------------------ actions ------------------------------- *)

Commit(h, m, t, tn, exp, ph, shown, issued) ==
    /\ story_history' = h
    /\ current_mode' = m
    /\ temperature' = t
    /\ tone' = tn
    /\ export_data' = exp
    /\ phase' = ph
    /\ ui' = shown
    /\ calls' = issued
    /\ welcome_due' = IF ph = "rest" THEN FALSE ELSE (welcome_due \/ h = <<>>)

Environment == <<db, gemini_model_censored, gemini_model_uncensored>>

\* The widgets the last run rendered are the ones the user can act on.
ButtonsRendered == phase \in {"rest", "slider", "tone", "exception"}

ModeRendered == phase \in {"rest", "slider", "tone"}

SliderRendered == phase \in {"rest", "tone"}

ToneRendered == phase = "rest"

ChatRendered == phase = "rest"

(* st.session_state of a browser session that has not run the script     *)
(* yet, with the values lines 115-122 are about to give it, and its page. *)
(* It holds no user_id ("").                                              *)
new_session ==
    [story_history |-> <<>>, current_mode |-> DefaultMode,
     temperature |-> DefaultTemperature, tone |-> DefaultTone, user_id |-> "",
     export_data |-> <<>>, phase |-> "rerun", ui |-> {},
     calls |-> {}, welcome_due |-> TRUE, saved |-> <<>>]

(* str(uuid.uuid4()) (line 126).  Identifiers are opaque: one identifier  *)
(* that no other session holds stands for all of them.                    *)
uuid4 == IF parked.user_id = "uuid-a" THEN "uuid-b" ELSE "uuid-a"

\* Variant: every run generates an identifier.
init_session_state_regenerating(id) ==
    IF id = "uuid-a" THEN "uuid-b" ELSE "uuid-a"

(* `if "user_id" not in st.session_state` (lines 123-128), which every    *)
(* run of the script passes before anything else uses the identifier.     *)
init_session_state(id) == IF id = "" THEN uuid4 ELSE id

(* The state a new browser session starts its first run in: the session   *)
(* defaults (lines 115-128), the Firestore client and the two Gemini      *)
(* models as the configuration made them (lines 69-110).                  *)
Startup ==
    /\ story_history = <<>>
    /\ current_mode = DefaultMode
    /\ temperature = DefaultTemperature
    /\ tone = DefaultTone
    /\ user_id = ""
    /\ db \in {"client", None}
    /\ \/ /\ gemini_model_censored = DEFAULT_SAFETY_SETTINGS
          /\ gemini_model_uncensored = UNCENSORED_SAFETY_SETTINGS
       \/ /\ gemini_model_censored = None
          /\ gemini_model_uncensored = None
    /\ store = EmptyDocument
    /\ export_data = <<>>
    /\ phase = "rerun"
    /\ ui = {}
    /\ calls = {}
    /\ welcome_due = TRUE
    /\ saved = <<>>
    /\ parked = new_session

(* A run no widget started: the first one, with the toast of line 127, or *)
(* the one st.rerun() asked for.                                          *)
Rerun ==
    /\ phase = "rerun"
    /\ LET e == script_end(story_history, current_mode, temperature, tone,
                           {}, {}, {})
       IN  Commit(e.history, e.mode, e.temperature, e.tone,
                  export_handler(story_history, current_mode, temperature, tone),
                  e.phase, IF user_id = "" THEN {"new_session"} ELSE {}, {})
    /\ user_id' = init_session_state(user_id)
    /\ UNCHANGED <<parked, Environment, store, saved>>

\* Variant: the log is cleared and the settings stay.
new_story_handler_keeping_settings ==
    [history |-> <<>>, mode |-> current_mode, temperature |-> temperature,
     tone |-> tone]

(* The assignments of the New Story handler (lines 286-289). *)
new_story_handler ==
    [history |-> <<>>, mode |-> DefaultMode, temperature |-> DefaultTemperature,
     tone |-> DefaultTone]

(* New Story (lines 285-293). *)
NewStory ==
    /\ ButtonsRendered
    /\ LET r == new_story_handler
       IN  Commit(r.history, r.mode, r.temperature, r.tone,
                  <<>>, "rerun", {"new_story"}, {})
    /\ user_id' = init_session_state(user_id)
    /\ UNCHANGED <<parked, Environment, store, saved>>

(* Save Session (lines 295-297), then the rest of the script. *)
SaveSession(net) ==
    /\ ButtonsRendered
    /\ LET r == save_story_to_firestore(net)
           e == script_end(story_history, current_mode, temperature, tone,
                           {}, {}, {})
       IN  /\ store' = r.store
           /\ saved' = IF r.result THEN <<session>> ELSE saved
           /\ Commit(e.history, e.mode, e.temperature, e.tone,
                     export_handler(story_history, current_mode, temperature, tone),
                     e.phase, r.ui, r.calls)
    /\ user_id' = init_session_state(user_id)
    /\ UNCHANGED <<parked, Environment>>

(* Load Session (lines 299-302): st.rerun() when the load succeeded,      *)
(* otherwise the rest of the script.                                      *)
LoadSession(net) ==
    /\ ButtonsRendered
    /\ LET r == load_story_from_firestore(net)
           e == script_end(r.history, r.mode, r.temperature, r.tone, {}, {}, {})
       IN  IF r.result
           THEN Commit(r.history, r.mode, r.temperature, r.tone,
                       <<>>, "rerun", r.ui, r.calls)
           ELSE Commit(e.history, e.mode, e.temperature, e.tone,
                       export_handler(r.history, r.mode, r.temperature, r.tone),
                       e.phase, r.ui, r.calls)
    /\ user_id' = init_session_state(user_id)
    /\ UNCHANGED <<parked, Environment, store, saved>>

(* A click on the enabled download button: the browser stores            *)
(* export_data and the script runs again.                                 *)
ExportStory ==
    /\ ButtonsRendered
    /\ export_data # <<>>
    /\ LET e == script_end(story_history, current_mode, temperature, tone,
                           {}, {}, {})
       IN  Commit(e.history, e.mode, e.temperature, e.tone,
                  export_handler(story_history, current_mode, temperature, tone),
                  e.phase, {}, {})
    /\ user_id' = init_session_state(user_id)
    /\ UNCHANGED <<parked, Environment, store, saved>>

(* Process Import with an uploaded file (lines 328-371).  The export      *)
(* handler ran before it, on the state the run started with.  st.rerun()  *)
(* ends the run from inside the try block: the exception it raises is no  *)
(* Exception subclass, so neither except clause takes it.                 *)
ProcessImport(file) ==
    /\ ButtonsRendered
    /\ LET r == import_handler(file)
           e == script_end(r.history, r.mode, r.temperature, r.tone, {}, {}, {})
           exp == export_handler(story_history, current_mode, temperature, tone)
       IN  IF r.rerun
           THEN Commit(r.history, r.mode, r.temperature, r.tone,
                       <<>>, "rerun", r.ui, {})
           ELSE Commit(e.history, e.mode, e.temperature, e.tone,
                       exp, e.phase, r.ui, {})
    /\ user_id' = init_session_state(user_id)
    /\ UNCHANGED <<parked, Environment, store, saved>>

(* The user picks another value in one settings widget (lines 381-408). *)
ChangeSetting(pick_mode, pick_temperature, pick_tone) ==
    /\ LET e == script_end(story_history, current_mode, temperature, tone,
                           pick_mode, pick_temperature, pick_tone)
       IN  Commit(e.history, e.mode, e.temperature, e.tone,
                  export_handler(story_history, current_mode, temperature, tone),
                  e.phase, {}, {})
    /\ user_id' = init_session_state(user_id)
    /\ UNCHANGED <<parked, Environment, store, saved>>

ChangeMode(v) ==
    /\ ModeRendered
    /\ v # current_mode
    /\ ChangeSetting({v}, {}, {})

ChangeTemperature(v) ==
    /\ SliderRendered
    /\ v # temperature
    /\ ChangeSetting({}, {v}, {})

ChangeTone(v) ==
    /\ ToneRendered
    /\ v # tone
    /\ ChangeSetting({}, {}, {v})

(* The submit-turn handler (lines 425-458): the user's turn, the prompt,  *)
(* the generation, the AI's turn, st.rerun().  An exception leaving the   *)
(* generation ends the run before the AI's turn is appended.  The chat    *)
(* input takes a prompt while the exchange fits in `limit` turns.         *)
SubmitTurnWithin(limit, user_prompt, outcome) ==
    /\ ChatRendered
    /\ Len(story_history) + 2 <= limit
    /\ LET w == settings_widgets(current_mode, temperature, tone, {}, {}, {})
           asked == append(story_history, "user", user_prompt)
           g == generate_gemini_response(full_context(asked, w.tone),
                                         w.temperature, w.mode, outcome)
           issued == {Call("generate_content", c) : c \in g.invoked}
           exp == export_handler(story_history, current_mode, temperature, tone)
       IN  IF g.returned
           THEN Commit(append(asked, "ai", g.text),
                       w.mode, w.temperature, w.tone, <<>>, "rerun",
                       g.shown, issued)
           ELSE Commit(asked, w.mode, w.temperature, w.tone, exp, "exception",
                       g.shown \cup {"uncaught_exception"}, issued)
    /\ user_id' = init_session_state(user_id)
    /\ UNCHANGED <<parked, Environment, store, saved>>

SubmitTurn(user_prompt, outcome) == SubmitTurnWithin(MaxTurns, user_prompt, outcome)

(* The server runs the script of the other browser session next: each     *)
(* session has its own st.session_state, the store and the configuration  *)
(* are shared.                                                            *)
Switch ==
    /\ parked' = [story_history |-> story_history, current_mode |-> current_mode,
                  temperature |-> temperature, tone |-> tone, user_id |-> user_id,
                  export_data |-> export_data, phase |-> phase, ui |-> ui,
                  calls |-> calls, welcome_due |-> welcome_due, saved |-> saved]
    /\ story_history' = parked.story_history
    /\ current_mode' = parked.current_mode
    /\ temperature' = parked.temperature
    /\ tone' = parked.tone
    /\ user_id' = parked.user_id
    /\ export_data' = parked.export_data
    /\ phase' = parked.phase
    /\ ui' = parked.ui
    /\ calls' = parked.calls
    /\ welcome_due' = parked.welcome_due
    /\ saved' = parked.saved
    /\ UNCHANGED <<Environment, store>>

(* Another writer sets a field of its own in the session's document; the  *)
(* merge of line 216 is there for such fields.                            *)
OutOfBandWrite(v) ==
    /\ user_id # ""
    /\ store' = [k \in DOMAIN store \cup {doc_ref} |->
                    IF k = doc_ref
                    THEN MergeSet(IF doc_ref \in DOMAIN store THEN store[doc_ref]
                                  ELSE EmptyDocument,
                                  [profile |-> v])
                    ELSE store[k]]
    /\ UNCHANGED <<session, user_id, parked, Environment, export_data, phase, ui,
                   calls, welcome_due, saved>>

(* ------------------------- uploaded files ----------------------------- *)

Restrict(f, keys) == [k \in keys |-> f[k]]

ImportedTurn == [sender |-> "user", text |-> <<"I draw my sword">>]

SettingsKeys == {"current_mode", "temperature", "tone"}

\* The members a transcript's "settings" may carry: every subset of the
\* three keys, with values in range and out of range.
InRangeSettings ==
    { Restrict([current_mode |-> "uncensored", temperature |-> 90, tone |-> "Horror"],
               keys) : keys \in SUBSET SettingsKeys }

OutOfRangeSettings ==
    { Restrict([current_mode |-> "foo", temperature |-> 150, tone |-> "Unknown"],
               keys) : keys \in SUBSET SettingsKeys }

\* Transcripts the export handler produces, in this session or another one.
ExportHistories == { <<WelcomeTurn>>, <<ImportedTurn>> }

ExportedFiles ==
    { json_dumps(export_document(h, m, t, tn, "uuid-b")) :
        h \in ExportHistories, m \in ModeChoices,
        t \in TemperatureChoices, tn \in ToneChoices }
    \cup { json_dumps(export_document(<<ImportedTurn>>, "censored", 70, "Fantasy", "uuid-a")) }

MalformedFiles ==
    { json_dumps([foo |-> 1]),
      json_dumps([history |-> <<ImportedTurn>>]),
      json_dumps([settings |-> JsonObject([tone |-> "Horror"])]) }

ImportFiles ==
    {NotJsonFile}
    \cup MalformedFiles
    \cup {json_dumps([history |-> h, settings |-> JsonNumber]) :
            h \in {<<>>, <<ImportedTurn>>}}
    \cup {json_dumps([history |-> <<ImportedTurn>>, settings |-> JsonObject(g)]) :
            g \in InRangeSettings \cup OutOfRangeSettings}
    \cup {json_dumps([history |-> <<>>, settings |-> JsonObject(g)]) :
            g \in { Restrict([tone |-> "Unknown"], {}), [tone |-> "Unknown"],
                    [temperature |-> 150] }}
    \cup ExportedFiles

\* The turns taken while the store and the transcripts are exercised.
StoryPrompts == {<<"I open the door">>}

StoryOutcomes ==
    {o \in ProviderOutcomes : ~o.raised /\ o.text # "" /\ o.block_reason = ""}

Next ==
    \/ Rerun
    \/ NewStory
    \/ \E net \in Networks : SaveSession(net)
    \/ \E net \in Networks : LoadSession(net)
    \/ ExportStory
    \/ \E file \in ImportFiles : ProcessImport(file)
    \/ \E v \in ModeChoices : ChangeMode(v)
    \/ \E v \in TemperatureChoices : ChangeTemperature(v)
    \/ \E v \in ToneChoices : ChangeTone(v)
    \/ \E user_prompt \in StoryPrompts, outcome \in StoryOutcomes :
            SubmitTurn(user_prompt, outcome)

\* Persistence and transcripts, with the provider configured.
Init == Startup /\ gemini_model_censored # None

Spec == Init /\ [][Next]_vars

\* The turn loop against every provider outcome, configured or not.
NextChat ==
    \/ Rerun
    \/ NewStory
    \/ \E v \in ModeChoices : ChangeMode(v)
    \/ \E v \in TemperatureChoices : ChangeTemperature(v)
    \/ \E v \in ToneChoices : ChangeTone(v)
    \/ \E user_prompt \in UserPrompts, outcome \in ProviderOutcomes :
            SubmitTurn(user_prompt, outcome)

SpecChat == Startup /\ [][NextChat]_vars

\* The provider refuses the key's permissions.
Fails403(outcome) == outcome.raised /\ Contains(outcome.message, "403")

\* The provider answers with a text or blocks the prompt.
PromptOutcomes ==
    {o \in ProviderOutcomes : ~o.raised /\ (o.text = "") # (o.block_reason = "")}

\* Long stories: the prompt of every turn of a log that outgrows the window.
NextPrompt ==
    \/ Rerun
    \/ \E v \in ToneChoices : ChangeTone(v)
    \/ \E user_prompt \in UserPrompts, outcome \in PromptOutcomes :
            SubmitTurnWithin(MaxPromptTurns, user_prompt, outcome)

InitPrompt == Init /\ db = None

SpecPrompt == InitPrompt /\ [][NextPrompt]_vars

\* Two browser sessions on one server and one store, their runs interleaved.
NextSessions ==
    \/ Rerun
    \/ NewStory
    \/ \E net \in Networks : SaveSession(net)
    \/ \E net \in Networks : LoadSession(net)
    \/ \E v \in ModeChoices : ChangeMode(v)
    \/ \E user_prompt \in StoryPrompts, outcome \in StoryOutcomes :
            SubmitTurn(user_prompt, outcome)
    \/ Switch

\* The store is connected.
InitStore == Init /\ db # None

SpecSessions == InitStore /\ [][NextSessions]_vars

\* What another writer stores in its own field of the session's document.
ProfileValues == {"bard", "rogue"}

\* One session and a second writer of its document.
NextStore ==
    \/ Rerun
    \/ \E net \in Networks : SaveSession(net)
    \/ \E net \in Networks : LoadSession(net)
    \/ \E v \in ToneChoices : ChangeTone(v)
    \/ \E user_prompt \in StoryPrompts, outcome \in StoryOutcomes :
            SubmitTurn(user_prompt, outcome)
    \/ \E v \in ProfileValues : OutOfBandWrite(v)

SpecStore == InitStore /\ [][NextStore]_vars

\* The store is connected; the provider is configured or not.
InitStory == Startup /\ db # None

\* The provider answers with a text, blocks the prompt or fails.
AnswerOutcomes ==
    PromptOutcomes \cup {o \in ProviderOutcomes : Fails403(o)}

\* A session that never imports: stories of two exchanges, saved, loaded
\* and started anew on the way.
NextStory ==
    \/ Rerun
    \/ NewStory
    \/ \E net \in Networks : SaveSession(net)
    \/ \E net \in Networks : LoadSession(net)
    \/ \E v \in ModeChoices : ChangeMode(v)
    \/ \E user_prompt \in StoryPrompts, outcome \in AnswerOutcomes :
            SubmitTurnWithin(MaxStoryTurns, user_prompt, outcome)

SpecStory == InitStory /\ [][NextStory]_vars

(* ============================== claims ================================ *)

Last(h) == h[Len(h)]

UserTurn(user_prompt) == [sender |-> "user", text |-> user_prompt]

AiTurn(text) == [sender |-> "ai", text |-> text]

ProviderConfigured == gemini_model_censored # None /\ gemini_model_uncensored # None

(* C1, as stated: a submit-turn whose generation fails with status 403 is *)
(* classified Forbidden, lets no exception escape, and leaves the log as  *)
(* it was before the generation (with or without the user's turn).        *)
C1_LogUnchanged ==
    [][\A user_prompt \in UserPrompts, outcome \in ProviderOutcomes :
          (ProviderConfigured /\ Fails403(outcome) /\ SubmitTurn(user_prompt, outcome))
          => /\ phase' = "rerun"
             /\ story_history' \in
                    {story_history, Append(story_history, UserTurn(user_prompt))}]_vars

(* C1, amended: a submit-turn whose generation fails with status 403      *)
(* ends in st.rerun() with no exception escaping, and the log is the log  *)
(* before it followed by the user's turn and one AI turn that carries the *)
(* permission-denied (Forbidden) message for the current mode.            *)
C1_ForbiddenTurnAppended ==
    [][\A user_prompt \in UserPrompts, outcome \in ProviderOutcomes :
          (ProviderConfigured /\ Fails403(outcome) /\ SubmitTurn(user_prompt, outcome))
          => /\ phase' = "rerun"
             /\ "uncaught_exception" \notin ui'
             /\ story_history' =
                    story_history \o <<UserTurn(user_prompt),
                                       AiTurn(PermissionDeniedText(current_mode))>>]_vars

C1_Witness ==
    /\ phase = "rerun"
    /\ calls # {}
    /\ story_history # <<>>
    /\ Last(story_history) = AiTurn(PermissionDeniedText(current_mode))

\* The texts of the four result kinds of a generation in `mode`.
SuccessTexts == {<<o.text>> : o \in {x \in ProviderOutcomes : x.text # ""}}

BlockedTexts ==
    {BlockedText(o.block_reason) : o \in {x \in ProviderOutcomes : x.block_reason # ""}}

ProviderErrorTexts(mode) ==
    {NotConfiguredText(mode), PermissionDeniedText(mode), ServerErrorText(mode)}
    \cup {UnknownErrorText(mode, e) : e \in ErrorMessages}

\* The one result kind the provider's outcome calls for.
ExpectedTexts(mode, outcome) ==
    IF outcome.raised THEN ProviderErrorTexts(mode)
    ELSE IF outcome.text # "" THEN {<<outcome.text>>}
    ELSE IF outcome.block_reason # "" THEN {BlockedText(outcome.block_reason)}
    ELSE {EmptyText}

(* C6: whatever the provider does (text, block, nothing usable, a raised  *)
(* failure), the generation of a submit-turn returns the text of exactly  *)
(* the result kind the outcome calls for - Success, Blocked, Empty or a   *)
(* ProviderError - and no exception reaches the handler, which appends    *)
(* that text and reruns.                                                  *)
C6_EveryOutcomeClassified ==
    [][\A user_prompt \in UserPrompts, outcome \in ProviderOutcomes :
          (ProviderConfigured /\ SubmitTurn(user_prompt, outcome))
          => /\ phase' = "rerun"
             /\ "uncaught_exception" \notin ui'
             /\ Len(story_history') = Len(story_history) + 2
             /\ Last(story_history').sender = "ai"
             /\ Last(story_history').text \in ExpectedTexts(current_mode, outcome)
             /\ Cardinality({k \in {"success", "blocked", "empty", "error"} :
                    Last(story_history').text \in
                        CASE k = "success" -> SuccessTexts
                          [] k = "blocked" -> BlockedTexts
                          [] k = "empty" -> {EmptyText}
                          [] OTHER -> ProviderErrorTexts(current_mode)}) = 1]_vars

C6_Witness ==
    /\ phase = "rerun"
    /\ calls # {}
    /\ story_history # <<>>
    /\ Last(story_history) =
          AiTurn(UnknownErrorText(current_mode, "401 API key not valid"))
    /\ ui = {"gemini_error"}

SettingsValid(m, t, tn) ==
    /\ m \in Range(ModeOptions)
    /\ t \in SliderMin..SliderMax
    /\ tn \in Range(ToneOptions)

(* C2, as stated: in every reachable state the mode is censored or        *)
(* uncensored, the temperature lies in [0.0, 1.0] and the tone is one of  *)
(* the six tones: no operation stores an out-of-set value.                *)
C2_SettingsAlwaysValid == SettingsValid(current_mode, temperature, tone)

(* C3, as stated: the log of an at-rest state is never empty, and once a  *)
(* run has left the log empty the next at-rest state holds exactly the    *)
(* welcome turn.                                                          *)
C3_WelcomeSeeded ==
    /\ [](phase = "rest" => story_history # <<>>)
    /\ [][(welcome_due /\ phase' = "rest") => story_history' = <<WelcomeTurn>>]_vars

AfterImportOf(valid) ==
    phase = "rerun" /\ ui = {"import_ok"} /\ valid

(* C4: importing the transcript that export produces for a valid history  *)
(* H and valid settings S, into a session in any state, leaves the        *)
(* session with history H and settings S - when the import handler ends   *)
(* and after the rerun it asks for.                                       *)
C4_ExportImportRoundTrip ==
    /\ [][\A h \in ExportHistories, m \in ModeChoices, t \in TemperatureChoices,
            tn \in ToneChoices, id \in UserIds :
            ProcessImport(json_dumps(export_document(h, m, t, tn, id)))
            => /\ story_history' = h
               /\ current_mode' = m
               /\ temperature' = t
               /\ tone' = tn
               /\ ui' = {"import_ok"}]_vars
    /\ [][(AfterImportOf(story_history # <<>>
                         /\ SettingsValid(current_mode, temperature, tone))
           /\ Rerun)
          => (phase' = "rest" /\ UNCHANGED session)]_vars

C4_Witness ==
    /\ phase = "rest"
    /\ story_history = <<ImportedTurn>>
    /\ settings = <<"uncensored", 90, "Horror">>
    /\ export_data =
          <<json_dumps(export_document(story_history, "uncensored", 90, "Horror", user_id))>>

(* C5: a successful Load that follows a successful Save, with no Save in  *)
(* between, sets history, mode, temperature and tone to the values they   *)
(* had at that Save - all four, whatever the session did in between - and *)
(* the rerun it asks for leaves them so.                                  *)
C5_LoadRestoresLastSave ==
    /\ [][\A net \in Networks :
            (saved # <<>> /\ LoadSession(net) /\ "load_ok" \in ui')
            => <<story_history', current_mode', temperature', tone'>> = saved[1]]_vars
    /\ [][(phase = "rerun" /\ ui = {"load_ok"} /\ saved # <<>> /\ Rerun)
          => <<story_history', current_mode', temperature', tone'>> = saved[1]]_vars

C5_Witness ==
    /\ ui = {"load_ok"}
    /\ saved # <<>>
    /\ session = saved[1]
    /\ Len(story_history) = 3
    /\ settings = <<"uncensored", 90, "Horror">>

LacksKey(file) ==
    /\ file.is_json
    /\ ("history" \notin DOMAIN file.value \/ "settings" \notin DOMAIN file.value)

(* C7: an Import of a decoded document without a top-level `history` or   *)
(* without a top-level `settings` is reported as an invalid format and    *)
(* leaves history, settings and identifier as they were - when the        *)
(* handler ends and after the rerun it asks for.                          *)
C7_MalformedImportRejected ==
    /\ [][\A file \in MalformedFiles :
            (LacksKey(file) /\ ProcessImport(file))
            => (ui' = {"import_invalid_format"} /\ UNCHANGED <<session, user_id>>)]_vars
    /\ [][(phase = "rerun" /\ ui = {"import_invalid_format"} /\ Rerun)
          => UNCHANGED <<session, user_id>>]_vars

C7_Witness ==
    /\ ui = {"import_invalid_format"}
    /\ Len(story_history) = 3
    /\ settings # <<DefaultMode, DefaultTemperature, DefaultTone>>

(* C8: on Import each settings field is optional by itself: a field the   *)
(* document's `settings` carries takes the document's value, a field it   *)
(* lacks keeps the value the session had just before, for every subset of *)
(* absent fields.                                                         *)
C8_AbsentFieldsKeepSessionValue ==
    [][\A h \in {<<>>, <<ImportedTurn>>}, given \in InRangeSettings \cup OutOfRangeSettings :
          ProcessImport(json_dumps([history |-> h, settings |-> JsonObject(given)]))
          => /\ current_mode' = IF "current_mode" \in DOMAIN given
                                THEN given["current_mode"] ELSE current_mode
             /\ temperature' = IF "temperature" \in DOMAIN given
                               THEN given["temperature"] ELSE temperature
             /\ tone' = IF "tone" \in DOMAIN given THEN given["tone"] ELSE tone
             /\ story_history' = h]_vars

\* Temperature 150 with tone Horror: the tone was absent from the document
\* (which carries Unknown with 150, or no tone) and is the session's own
\* non-default one.
C8_Witness ==
    /\ phase = "rerun"
    /\ ui = {"import_ok"}
    /\ temperature = 150
    /\ tone = "Horror"
    /\ current_mode = "censored"

(* C9: a Load against a reachable backend without a record for the        *)
(* session's identifier reports 'no saved session', which no other        *)
(* outcome of Load reports (a failing backend reports an error), and      *)
(* leaves history and settings unchanged.                                 *)
C9_NothingToResume ==
    [][\A net \in Networks :
          (db # None /\ LoadSession(net))
          => /\ ("load_none" \in ui') <=> (net = "ok" /\ user_id \notin DOMAIN store)
             /\ ("load_error" \in ui') <=> (net # "ok")
             /\ ("load_none" \in ui') => (ui' = {"load_none"} /\ UNCHANGED session)]_vars

C9_Witness ==
    /\ ui = {"load_none"}
    /\ calls = {Call("get", user_id)}
    /\ Len(story_history) = 3

(* C10: with no backend connection, Save and Load report that Firebase is *)
(* not initialized, issue no call to the store, and leave history,        *)
(* settings and every stored record unchanged.                            *)
C10_NotConfiguredNoIo ==
    [][\A net \in Networks :
          /\ (db = None /\ SaveSession(net))
             => (ui' = {"save_not_initialized"} /\ calls' = {}
                 /\ UNCHANGED <<session, store>>)
          /\ (db = None /\ LoadSession(net))
             => (ui' = {"load_not_initialized"} /\ calls' = {}
                 /\ UNCHANGED <<session, store>>)]_vars

C10_Witness ==
    /\ db = None
    /\ ui \in {{"save_not_initialized"}, {"load_not_initialized"}}
    /\ calls = {}
    /\ Len(story_history) = 3

(* C11: a submit-turn whose mode has no provider configuration (no model  *)
(* instance was created for it) gets the not-configured message of that   *)
(* mode as the result of its generation, at once: no request is made to   *)
(* the provider and no exception leaves the generation.                   *)
C11_NotConfiguredNoCall ==
    [][\A user_prompt \in UserPrompts, outcome \in ProviderOutcomes :
          (select_model(current_mode) = None /\ SubmitTurn(user_prompt, outcome))
          => /\ calls' = {}
             /\ phase' = "rerun"
             /\ ui' = {}
             /\ story_history' =
                    story_history \o <<UserTurn(user_prompt),
                                       AiTurn(NotConfiguredText(current_mode))>>]_vars

C11_Witness ==
    /\ gemini_model_uncensored = None
    /\ phase = "rerun"
    /\ calls = {}
    /\ story_history # <<>>
    /\ Last(story_history) = AiTurn(NotConfiguredText("uncensored"))

\* The line of one turn in a prompt: uppercase sender, colon, text.
PromptLine(turn) ==
    <<IF turn.sender = "user" THEN "USER" ELSE "AI", ": ">> \o turn.text \o <<"\n">>

\* The lines of the turns from..to of a log, in log order.
RECURSIVE PromptLines(_, _, _)
PromptLines(log, from, to) ==
    IF from > to THEN <<>>
    ELSE PromptLine(log[from]) \o PromptLines(log, from + 1, to)

Min(a, b) == IF a < b THEN a ELSE b

\* The prompt the claim describes for a log of n turns and a tone.
WindowPrompt(log, tn) ==
    LET n == Len(log)
        k == Min(n, 10)
    IN  <<"You are an AI Dungeon Master. ", "The story's tone is: ", tn, ". ",
          "Generate the next part of the fantasy story based on the following conversation:\n\n">>
        \o PromptLines(log, n - k + 1, n)
        \o <<"AI:">>

NewLines(prompt) == Cardinality({i \in DOMAIN prompt : prompt[i] = "\n"})

(* C12: the prompt a submit-turn sends, built from the log of n turns     *)
(* that already holds the submitted user turn, is the preamble naming the *)
(* current tone, then the last min(n, 10) turns of the log in log order,  *)
(* one line each (uppercase sender, colon, text), then the cue "AI:";     *)
(* it has min(n, 10) lines, so no earlier turn is in it.                  *)
C12_PromptWindow ==
    [][\A user_prompt \in UserPrompts, outcome \in PromptOutcomes :
          SubmitTurnWithin(MaxPromptTurns, user_prompt, outcome)
          => LET log == Append(story_history, UserTurn(user_prompt))
             IN  /\ calls' # {}
                 /\ \A c \in calls' :
                      /\ c.op = "generate_content"
                      /\ c.arg.contents = WindowPrompt(log, tone)
                      /\ NewLines(c.arg.contents) = Min(Len(log), 10)]_vars

\* The sixth exchange: a log of 12 turns at prompt time, of which the
\* welcome turn and the first user turn are not in the prompt.
C12_Witness ==
    /\ phase = "rerun"
    /\ Len(story_history) = 13
    /\ tone = "Horror"
    /\ story_history[2] # story_history[12]
    /\ \E c \in calls :
          /\ c.op = "generate_content"
          /\ c.arg.contents =
                WindowPrompt(SubSeq(story_history, 3, 12), "Horror")
          /\ NewLines(c.arg.contents) = 10
          /\ \A i \in DOMAIN c.arg.contents :
                c.arg.contents[i] # WelcomeText[1]

StoreCalls == {c \in calls : c.op \in {"set", "get"}}

(* C13: the session's identifier is given once, by the first run, and no  *)
(* later run changes it - no submit-turn, settings change, New Story,     *)
(* Save, Load, Export or Import, the import of a transcript exported      *)
(* under another identifier included; every call Save and Load make to    *)
(* the store names that identifier, and no document is stored under any   *)
(* other key.                                                             *)
C13_IdentifierNeverChanges ==
    /\ [][(user_id = "" => user_id' # "") /\ (user_id # "" => user_id' = user_id)]_vars
    /\ [][\A file \in ExportedFiles :
            (file.value["exported_from_user_id"] # user_id /\ ProcessImport(file))
            => (ui' = {"import_ok"} /\ user_id' = user_id)]_vars
    /\ [][\A net \in Networks :
            (db # None /\ (SaveSession(net) \/ LoadSession(net)))
            => (calls' \in {{Call("set", user_id)}, {Call("get", user_id)}})]_vars
    /\ [](StoreCalls # {} => StoreCalls = {Call(c.op, user_id) : c \in StoreCalls})
    /\ [](DOMAIN store \subseteq {user_id})

\* A transcript of another identifier was imported after a Save, and a
\* Load then read the session's own document.
C13_Witness ==
    /\ user_id = "uuid-a"
    /\ calls = {Call("get", "uuid-a")}
    /\ ui = {"load_ok"}
    /\ DOMAIN store = {"uuid-a"}
    /\ saved # <<>>
    /\ saved[1][1] = <<ImportedTurn>>
    /\ saved[1][2] = "uncensored"

\* The document stored for the parked session, <<>> when there is none.
ParkedDocument(st) ==
    IF parked.user_id \in DOMAIN st THEN <<st[parked.user_id]>> ELSE <<>>

SessionAction ==
    \/ Rerun
    \/ NewStory
    \/ \E net \in Networks : SaveSession(net) \/ LoadSession(net)
    \/ \E v \in ModeChoices : ChangeMode(v)
    \/ \E user_prompt \in StoryPrompts, outcome \in StoryOutcomes :
            SubmitTurn(user_prompt, outcome)

(* C14: of two sessions with different identifiers whose runs interleave  *)
(* in any order, a Save of one leaves the document stored under the       *)
(* other's identifier as it is and writes only its own; a successful Load *)
(* gives the session the history and settings of its own last Save; and   *)
(* no run of one session changes the other's history, settings or         *)
(* identifier.                                                            *)
C14_SessionsIsolated ==
    /\ [](user_id # "" => user_id # parked.user_id)
    /\ [][\A net \in Networks :
            SaveSession(net)
            => /\ ParkedDocument(store') = ParkedDocument(store)
               /\ "save_ok" \in ui'
                  => /\ user_id \in DOMAIN store'
                     /\ store'[user_id].history = story_history]_vars
    /\ [][\A net \in Networks :
            (LoadSession(net) /\ "load_ok" \in ui')
            => /\ saved # <<>>
               /\ <<story_history', current_mode', temperature', tone'>> = saved[1]]_vars
    /\ [][\A net \in Networks :
            (LoadSession(net) /\ saved = <<>>) => "load_ok" \notin ui']_vars
    /\ [][SessionAction => UNCHANGED parked]_vars

\* Both sessions have saved, different stories under different settings,
\* and the running one has just loaded its own.
C14_Witness ==
    /\ ui = {"load_ok"}
    /\ parked.saved # <<>>
    /\ saved # <<>>
    /\ session = saved[1]
    /\ parked.saved[1] # saved[1]
    /\ Len(parked.saved[1][1]) # Len(saved[1][1])
    /\ parked.saved[1][2] # saved[1][2]
    /\ DOMAIN store = {user_id, parked.user_id}
    /\ store[parked.user_id].history = parked.saved[1][1]

(* C15: a submit-turn on a log L leaves the log equal to L followed by    *)
(* exactly two turns - the user's turn with the submitted text, then one  *)
(* AI turn - whatever the provider does: the turns of L keep sender, text *)
(* and index, and mode, temperature and tone are as before.               *)
C15_SubmitAppendsTwoTurns ==
    [][\A user_prompt \in UserPrompts, outcome \in ProviderOutcomes :
          SubmitTurn(user_prompt, outcome)
          => /\ Len(story_history') = Len(story_history) + 2
             /\ SubSeq(story_history', 1, Len(story_history)) = story_history
             /\ story_history'[Len(story_history) + 1] = UserTurn(user_prompt)
             /\ story_history'[Len(story_history) + 2].sender = "ai"
             /\ DOMAIN story_history'[Len(story_history) + 2] = {"sender", "text"}
             /\ UNCHANGED settings]_vars

\* A blocked answer appended under settings that are not the defaults.
C15_Witness ==
    /\ phase = "rerun"
    /\ calls # {}
    /\ Len(story_history) = 3
    /\ story_history[1] = WelcomeTurn
    /\ story_history[2].sender = "user"
    /\ story_history[3] = AiTurn(BlockedText("SAFETY"))
    /\ settings = <<"uncensored", 90, "Horror">>

(* C16: the store changes only in a run of Save: submit-turn, settings    *)
(* changes, New Story, Export, Import, Load and reruns leave every stored *)
(* document as it is; and a run of Save, of Export or of a Load that did  *)
(* not succeed leaves history, mode, temperature and tone as they are.    *)
C16_StoreOnlyBySave ==
    /\ [][store' # store
          => \E net \in Networks : SaveSession(net) /\ "save_ok" \in ui']_vars
    /\ [][(\/ NewStory
           \/ ExportStory
           \/ \E file \in ImportFiles : ProcessImport(file)
           \/ \E net \in Networks : LoadSession(net)
           \/ \E v \in ModeChoices : ChangeMode(v)
           \/ \E v \in TemperatureChoices : ChangeTemperature(v)
           \/ \E v \in ToneChoices : ChangeTone(v)
           \/ \E user_prompt \in StoryPrompts, outcome \in StoryOutcomes :
                  SubmitTurn(user_prompt, outcome))
          => (store' = store /\ \A c \in calls' : c.op # "set")]_vars
    /\ [][(\/ \E net \in Networks : SaveSession(net)
           \/ ExportStory
           \/ \E net \in Networks : LoadSession(net) /\ "load_ok" \notin ui')
          => UNCHANGED session]_vars

\* A Save from a page whose run had stopped at the slider: a document is
\* stored, the session is as it was.
C16_Witness ==
    /\ ui = {"save_ok"}
    /\ saved = <<session>>
    /\ store[user_id].temperature = 150
    /\ phase = "slider"
    /\ story_history # <<>>

SavedFields == {"history", "current_mode", "temperature", "tone", "timestamp"}

(* C17: a successful Save makes one call to the store, a set and no get,  *)
(* and the document under the session's identifier then holds the         *)
(* session's history, mode, temperature and tone and the timestamp        *)
(* marker, while every other field the document held before - written     *)
(* there by somebody else - is still there with its value.                *)
C17_SaveMergesFields ==
    [][\A net \in Networks :
          (SaveSession(net) /\ "save_ok" \in ui')
          => LET old == IF user_id \in DOMAIN store THEN store[user_id]
                        ELSE EmptyDocument
             IN  /\ calls' = {Call("set", user_id)}
                 /\ user_id \in DOMAIN store'
                 /\ DOMAIN store'[user_id] = DOMAIN old \cup SavedFields
                 /\ store'[user_id].history = story_history
                 /\ store'[user_id].current_mode = current_mode
                 /\ store'[user_id].temperature = temperature
                 /\ store'[user_id].tone = tone
                 /\ store'[user_id].timestamp = "SERVER_TIMESTAMP"
                 /\ \A k \in DOMAIN old \ SavedFields :
                        store'[user_id][k] = old[k]]_vars

\* A second Save over a document that holds an earlier story and a field
\* of another writer.
C17_Witness ==
    /\ ui = {"save_ok"}
    /\ user_id \in DOMAIN store
    /\ DOMAIN store[user_id] = SavedFields \cup {"profile"}
    /\ store[user_id].profile = "rogue"
    /\ store[user_id].history = story_history
    /\ Len(story_history) = 3
    /\ store[user_id].tone = "Horror"

\* The session after the run holds what the document dictates: its history,
\* and for each setting the document's value, or the session's where the
\* document's settings object lacks it.
DictatedBy(file) ==
    /\ file.is_json
    /\ has_expected_keys(file.value)
    /\ file.value["settings"].is_object
    /\ story_history' = file.value["history"]
    /\ current_mode' = Get(file.value["settings"].members, "current_mode", current_mode)
    /\ temperature' = Get(file.value["settings"].members, "temperature", temperature)
    /\ tone' = Get(file.value["settings"].members, "tone", tone)

(* C18, as stated: every Import attempt - of a good transcript, of one    *)
(* that lacks a key, of a file that is no JSON, of a document whose       *)
(* settings value has an unexpected shape - leaves the session either     *)
(* with history and all three settings as the document dictates or with   *)
(* history and all three settings as they were before.                    *)
C18_ImportAllOrNothing ==
    [][\A file \in ImportFiles :
          ProcessImport(file) => (DictatedBy(file) \/ UNCHANGED session)]_vars

DefaultSettings == <<DefaultMode, DefaultTemperature, DefaultTone>>

(* C19: New Story, from any page that shows the button, clears the log    *)
(* and sets mode, temperature and tone to censored, 0.7 and Fantasy in    *)
(* one run, which ends in st.rerun(); the run that follows ends at rest   *)
(* with the log holding exactly the welcome turn and the three defaults.  *)
(* Neither run changes the identifier or a stored document, and no        *)
(* at-rest state lies between the two.                                    *)
C19_NewStoryResetsAll ==
    /\ [][NewStory
          => /\ session' = <<<<>>, DefaultMode, DefaultTemperature, DefaultTone>>
             /\ phase' = "rerun"
             /\ ui' = {"new_story"}
             /\ UNCHANGED <<user_id, store>>]_vars
    /\ [][(ui = {"new_story"} /\ Rerun)
          => /\ phase' = "rest"
             /\ story_history' = <<WelcomeTurn>>
             /\ settings' = DefaultSettings
             /\ UNCHANGED <<user_id, store>>]_vars
    /\ [](ui = {"new_story"}
          => (phase = "rerun" /\ story_history = <<>> /\ settings = DefaultSettings))
    /\ [][(ui = {"new_story"} /\ ui' # ui) => Rerun]_vars

\* New Story after a Save made on a page whose run had stopped at the tone
\* selector: the document keeps the imported story and its tone.
C19_Witness ==
    /\ ui = {"new_story"}
    /\ phase = "rerun"
    /\ session = <<<<>>, DefaultMode, DefaultTemperature, DefaultTone>>
    /\ saved # <<>>
    /\ user_id \in DOMAIN store
    /\ store[user_id].history = <<ImportedTurn>>
    /\ store[user_id].tone = "Unknown"

Generations == {c \in calls : c.op = "generate_content"}

(* C20: every request a submit-turn makes to the provider carries the     *)
(* strict safety settings when the session's mode is censored and the     *)
(* permissive ones when it is uncensored; its prompt is the one built     *)
(* from the history and the tone alone, the same in both modes; and a     *)
(* request with the permissive settings is only ever made in uncensored   *)
(* mode.                                                                  *)
C20_ModeSelectsSafetySettings ==
    /\ [][\A user_prompt \in UserPrompts, outcome \in ProviderOutcomes :
            (ProviderConfigured /\ SubmitTurn(user_prompt, outcome))
            => /\ calls' # {}
               /\ \A c \in calls' :
                    /\ c.op = "generate_content"
                    /\ current_mode = "censored"
                       => c.arg.safety_settings = DEFAULT_SAFETY_SETTINGS
                    /\ current_mode = "uncensored"
                       => c.arg.safety_settings = UNCENSORED_SAFETY_SETTINGS
                    /\ c.arg.contents =
                          WindowPrompt(Append(story_history, UserTurn(user_prompt)), tone)
                    /\ c.arg.temperature = temperature]_vars
    /\ [](\A c \in Generations :
            /\ c.arg.safety_settings = UNCENSORED_SAFETY_SETTINGS
               <=> current_mode = "uncensored"
            /\ c.arg.safety_settings = DEFAULT_SAFETY_SETTINGS
               <=> current_mode = "censored")

\* A request made in uncensored mode for the same history and tone as one
\* made in censored mode would be: the welcome turn and one prompt.
C20_Witness ==
    /\ phase = "rerun"
    /\ current_mode = "uncensored"
    /\ tone = "Fantasy"
    /\ Len(story_history) = 3
    /\ \E c \in Generations :
          /\ c.arg.safety_settings = UNCENSORED_SAFETY_SETTINGS
          /\ c.arg.contents = WindowPrompt(SubSeq(story_history, 1, 2), "Fantasy")

\* The log starts with the welcome turn and goes on user, ai, user, ai.
Alternates(h) ==
    /\ Len(h) % 2 = 1
    /\ h[1] = WelcomeTurn
    /\ \A i \in DOMAIN h :
          h[i].sender = IF i % 2 = 1 THEN "ai" ELSE "user"

(* C21: in a session that never imports - it takes turns, changes         *)
(* settings, starts new stories, saves and loads its own saves - the log  *)
(* of every at-rest state starts with the AI's welcome turn and           *)
(* alternates ai, user, ai, ...: it ends with an AI turn, and every user  *)
(* turn is followed by exactly one AI turn.                               *)
C21_AtRestLogAlternates == phase = "rest" => Alternates(story_history)

\* A story of two exchanges, the first answered by a provider failure,
\* loaded back from the session's own Save after a New Story.
C21_Witness ==
    /\ phase = "rest"
    /\ Len(story_history) = 5
    /\ story_history[3] = AiTurn(PermissionDeniedText("uncensored"))
    /\ saved # <<>>
    /\ saved[1][1] = story_history
    /\ calls = {}
    /\ current_mode = "censored"

====
